---------------------------- MODULE Spec2Model ----------------------------
(***************************************************************************)
(* Tables of items kept as flat cell records: the TableManager name cache  *)
(* (core/table_manager.py), the TableController workflows                  *)
(* (controllers/table_controller.py) and the rename dialog                 *)
(* (views/dialogs/table_rename_dialog.py), over the record store they all  *)
(* share.  The store (DBManager) and the validator (TableValidator) are    *)
(* not part of the sources at hand; they are modelled from their           *)
(* specification (sections 4.1 and 6 of the design document).              *)
(***************************************************************************)
EXTENDS Integers, Sequences, FiniteSets, TLC

(***************************************************************************)
(* Bounds of the model.                                                    *)
(***************************************************************************)
\* the store hands out the ids 1..MaxId, each once
MaxId == 2
\* a matrix has 1..MaxRows rows
MaxRows == 2
\* a matrix has 1..MaxCols columns
MaxCols == 2
\* cell records one table identity may hold beyond one full matrix
MaxExtra == 1
\* the store's get_all_tables raises at most MaxOutages times in a run
MaxOutages == 1

(***************************************************************************)
(* Values.                                                                 *)
(***************************************************************************)
\* Python None where an id is expected: a name the cache does not hold, a
\* store lookup that finds nothing
NoId == 0
Ids == 1..MaxId

\* a string is the sequence of its characters
SP == " "
\* the result of a store lookup that finds no table
NoName == <<"<", "/", ">">>
\* table names the manager is called with (it validates nothing)
MgrNames == {<<"t">>, <<"T">>, <<"u">>}
\* table names the controller and the dialog are called with
CtlNames == {<<"t">>, <<"T">>, <<"!">>}
\* the names used where the store's get_all_tables may raise
FaultNames == {<<"t">>, <<"!">>}
Names == MgrNames \cup CtlNames

EmptyCache == [n \in Names |-> NoId]
NoTables == [i \in Ids |-> NoName]
NoItems == [i \in Ids |-> <<>>]

VARIABLES
    tables,     \* the store's table identities: id -> name, NoName when absent
    nextId,     \* the id the store assigns to the next table it creates
    items,      \* the store's cell records: table id -> records in insertion order
    cache,      \* TableManager._table_cache: name -> id, NoId when not held
    call,       \* the operation that ran last, with its arguments and the injected store fault
    result,     \* what that operation returned (or that it raised)
    signals,    \* the Qt signals that operation emitted, in order
    dbcalls,    \* the store methods that operation called, in order
    outages,    \* how many times the store's get_all_tables has raised so far
    threads     \* the get_or_create_table call each thread is in, and where

vars == <<tables, nextId, items, cache, call, result, signals, dbcalls, outages,
          threads>>

(***************************************************************************)
(* The record store (DBManager), from section 6 of the design document.    *)
(***************************************************************************)
\* getTable(id) -> record | absent
GetTable(t, id) == t[id] # NoName

\* getTableByName(name) -> record | absent; names are unique in the store
GetTableByName(t, name) ==
    IF \E i \in Ids : t[i] = name THEN CHOOSE i \in Ids : t[i] = name ELSE NoId

\* getAllTables() -> list: the names of the live tables
GetAllTables(t) == {t[i] : i \in {j \in Ids : t[j] # NoName}}

\* addTable(name, description) -> id: the table gets the next id
AddTable(t, n, name) == [i \in DOMAIN t \cup {n} |-> IF i = n THEN name ELSE t[i]]

\* updateTable(id, name): the store keeps names unique, a clash is a
\* constraint violation, which the store raises
UpdateTableClashes(t, id, name) == \E j \in Ids : j # id /\ t[j] = name

(***************************************************************************)
(* The cell records of the store.  A record is one non-empty cell of a     *)
(* table: its position (row and column, from 0), its content and the       *)
(* category it was created in.  A table's records are kept in insertion    *)
(* order.                                                                  *)
(***************************************************************************)
\* category ids a caller may pass (the controller validates none)
Categories == {0, 1}
\* what a caller may put into a cell
CellTexts == {<<SP>>, <<SP, "a">>}
Matrices ==
    UNION {[1..R -> [1..C -> CellTexts]] : R \in 1..MaxRows, C \in 1..MaxCols}
\* the most records one table identity holds in the model
MaxItems == MaxRows * MaxCols + MaxExtra

RowCells(m, r) ==
    [k \in 1..Len(m[r]) |-> [row |-> r - 1, col |-> k - 1, content |-> m[r][k]]]
RECURSIVE CellsFrom(_, _)
CellsFrom(m, r) == IF r > Len(m) THEN <<>> ELSE RowCells(m, r) \o CellsFrom(m, r + 1)
\* the cells of a matrix in the order two nested enumerate() loops visit them
AllCells(m) == CellsFrom(m, 1)

\* the flat records of a matrix: one per cell with data
Encode(cat, m) ==
    LET filled == SelectSeq(AllCells(m), LAMBDA c : c.content # <<>>)
    IN  [i \in 1..Len(filled) |->
            [row |-> filled[i].row, col |-> filled[i].col,
             content |-> filled[i].content, cat |-> cat]]

\* getTableItems(name) -> list of cell records or empty
GetTableItems(t, it, name) ==
    IF GetTableByName(t, name) = NoId THEN <<>> ELSE it[GetTableByName(t, name)]

\* addTableItems(category, name, matrix, ...) -> {success, itemsCreated, errors},
\* atomic: the table identity is looked up by name, created when there is
\* none, and every record is inserted, or nothing is
AddTableItems(t, n, it, cat, name, data) ==
    LET known == GetTableByName(t, name)
        tid == IF known = NoId THEN n ELSE known
        recs == Encode(cat, data)
    IN  [tables |-> IF known = NoId THEN AddTable(t, n, name) ELSE t,
         nextId |-> IF known = NoId THEN n + 1 ELSE n,
         items |-> [i \in DOMAIN it \cup {tid} |->
                        IF i # tid THEN it[i]
                        ELSE IF i \in DOMAIN it THEN it[i] \o recs ELSE recs],
         result |-> [success |-> TRUE, items_created |-> Len(recs), errors |-> <<>>]]

\* the store's answer when the insert fails: nothing was inserted
AddTableItemsFailed == [success |-> FALSE, items_created |-> 0, errors |-> <<"store_error">>]

\* updateTableCell(name, row, col, content) -> bool: the content at that
\* position of a table that has records is overwritten, the record being
\* written in the table's category when the position had none
CellExists(recs, row, col) == \E i \in 1..Len(recs) : recs[i].row = row /\ recs[i].col = col
UpdateTableCell(recs, row, col, content) ==
    IF CellExists(recs, row, col)
        THEN [i \in 1..Len(recs) |->
                IF recs[i].row = row /\ recs[i].col = col
                    THEN [recs[i] EXCEPT !.content = content]
                    ELSE recs[i]]
        ELSE Append(recs, [row |-> row, col |-> col, content |-> content,
                           cat |-> recs[1].cat])

\* exportTableToDict(name) -> {tableName, columns, rows, metadata} | absent:
\* the matrix rebuilt from the flat records, rows and columns as far as the
\* records reach
SetMax(S) == CHOOSE x \in S : \A y \in S : y <= x
ExportRows(recs) ==
    LET nrows == SetMax({recs[i].row : i \in 1..Len(recs)}) + 1
        ncols == SetMax({recs[i].col : i \in 1..Len(recs)}) + 1
        at(r, k) == {i \in 1..Len(recs) : recs[i].row = r /\ recs[i].col = k}
    IN  [r \in 1..nrows |-> [k \in 1..ncols |->
            IF at(r - 1, k - 1) = {} THEN <<>>
            ELSE recs[CHOOSE i \in at(r - 1, k - 1) : \A j \in at(r - 1, k - 1) : i <= j].content]]

(***************************************************************************)
(* The validator (TableValidator), from section 4.1 of the design          *)
(* document.                                                               *)
(***************************************************************************)
\* the longest name the validator accepts
MaxNameLen == 100
\* the characters a name may contain: letters, digits, hyphen, underscore
NameChars == {"t", "T", "u", "7", "-", "_"}

LowerChar(ch) == IF ch = "T" THEN "t" ELSE ch
Lower(s) == [i \in 1..Len(s) |-> LowerChar(s[i])]

RECURSIVE LStrip(_)
LStrip(s) == IF s # <<>> /\ Head(s) = SP THEN LStrip(Tail(s)) ELSE s
RECURSIVE RStrip(_)
RStrip(s) ==
    IF s # <<>> /\ s[Len(s)] = SP THEN RStrip(SubSeq(s, 1, Len(s) - 1)) ELSE s
\* str.strip()
Strip(s) == RStrip(LStrip(s))

\* validate_table_name(name, existing_names, exclude_name): "ok" or the
\* rule that fails, the rules taken in the order the document lists them
ValidateTableName(name, existing, exclude) ==
    IF Strip(name) = <<>> THEN "name_empty"
    ELSE IF Len(name) > MaxNameLen THEN "name_too_long"
    ELSE IF \E i \in 1..Len(name) : name[i] \notin NameChars THEN "name_chars"
    ELSE IF name # exclude /\ Lower(name) \in {Lower(e) : e \in existing}
        THEN "name_not_unique"
    ELSE "ok"

\* sanitize_cell_content(text)
SanitizeCellContent(text) == Strip(text)

\* sanitize_table_data(matrix): element-wise, the shape kept
SanitizeTableData(m) ==
    [r \in 1..Len(m) |-> [k \in 1..Len(m[r]) |-> SanitizeCellContent(m[r][k])]]

RECURSIVE SumSeq(_)
SumSeq(s) == IF s = <<>> THEN 0 ELSE Head(s) + SumSeq(Tail(s))

\* the cells of a matrix whose trimmed content is not empty
FilledCount(m) ==
    SumSeq([r \in 1..Len(m) |->
                Cardinality({k \in 1..Len(m[r]) : Strip(m[r][k]) # <<>>})])

\* validate_table_data(matrix, min_filled) -> (ok, error, filled_count)
ValidateTableData(m, minFilled) ==
    [ok |-> FilledCount(m) >= minFilled, filled |-> FilledCount(m)]

(***************************************************************************)
(* TableManager.                                                           *)
(***************************************************************************)
\* what one manager operation did: the cache, the tables and the id counter
\* it leaves, the store calls it made, and what it returned
Outcome(c, t, n, calls, res) ==
    [cache |-> c, tables |-> t, nextId |-> n, calls |-> calls, result |-> res]

GocFaults == {"none", "get_table", "get_table_by_name", "add_table"}

\* get_or_create_table with the liveness check of the cached id left out
GetOrCreateTrustsCache(c, t, n, name, fault) ==
    LET calls2 == <<"get_table_by_name">>
        calls3 == Append(calls2, "add_table")
        found == GetTableByName(t, name)
        raised == [raised |-> TRUE, id |-> NoId, created |-> FALSE]
    IN  IF c[name] # NoId
            THEN Outcome(c, t, n, <<"get_table">>,
                         [raised |-> fault = "get_table",
                          id |-> IF fault = "get_table" THEN NoId ELSE c[name],
                          created |-> FALSE])
        ELSE IF fault = "get_table_by_name" THEN Outcome(c, t, n, calls2, raised)
        ELSE IF found # NoId
            THEN Outcome([c EXCEPT ![name] = found], t, n, calls2,
                         [raised |-> FALSE, id |-> found, created |-> FALSE])
        ELSE IF fault = "add_table" THEN Outcome(c, t, n, calls3, raised)
        ELSE Outcome([c EXCEPT ![name] = n], AddTable(t, n, name), n + 1, calls3,
                     [raised |-> FALSE, id |-> n, created |-> TRUE])

\* get_or_create_table(name); fault names the store call that raises
GetOrCreateOutcome(c, t, n, name, fault) ==
    LET hit == c[name] # NoId
        live == hit /\ GetTable(t, c[name])
        c1 == IF hit /\ ~live THEN [c EXCEPT ![name] = NoId] ELSE c
        calls1 == IF hit THEN <<"get_table">> ELSE <<>>
        calls2 == Append(calls1, "get_table_by_name")
        calls3 == Append(calls2, "add_table")
        found == GetTableByName(t, name)
        raised == [raised |-> TRUE, id |-> NoId, created |-> FALSE]
    IN  IF hit /\ fault = "get_table" THEN Outcome(c, t, n, calls1, raised)
        ELSE IF live
            THEN Outcome(c, t, n, calls1,
                         [raised |-> FALSE, id |-> c[name], created |-> FALSE])
        ELSE IF fault = "get_table_by_name" THEN Outcome(c1, t, n, calls2, raised)
        ELSE IF found # NoId
            THEN Outcome([c1 EXCEPT ![name] = found], t, n, calls2,
                         [raised |-> FALSE, id |-> found, created |-> FALSE])
        ELSE IF fault = "add_table" THEN Outcome(c1, t, n, calls3, raised)
        ELSE Outcome([c1 EXCEPT ![name] = n], AddTable(t, n, name), n + 1, calls3,
                     [raised |-> FALSE, id |-> n, created |-> TRUE])

RenameFaults == {"none", "get_table", "update_table"}

\* rename_table with the old cache key left in place
RenameKeepsOldKey(c, t, n, id, new, fault) ==
    LET calls2 == <<"get_table", "update_table">>
        no == [raised |-> FALSE, ok |-> FALSE]
    IN  IF fault = "get_table" THEN Outcome(c, t, n, <<"get_table">>, no)
        ELSE IF ~GetTable(t, id) THEN Outcome(c, t, n, <<"get_table">>, no)
        ELSE IF fault = "update_table" \/ UpdateTableClashes(t, id, new)
            THEN Outcome(c, t, n, calls2, no)
        ELSE Outcome([c EXCEPT ![new] = id], [t EXCEPT ![id] = new], n, calls2,
                     [raised |-> FALSE, ok |-> TRUE])

\* rename_table updating the cache before the store
RenameCachesFirst(c, t, n, id, new, fault) ==
    LET old == t[id]
        calls2 == <<"get_table", "update_table">>
        no == [raised |-> FALSE, ok |-> FALSE]
        c2 == [[c EXCEPT ![old] = NoId] EXCEPT ![new] = id]
    IN  IF fault = "get_table" THEN Outcome(c, t, n, <<"get_table">>, no)
        ELSE IF ~GetTable(t, id) THEN Outcome(c, t, n, <<"get_table">>, no)
        ELSE IF fault = "update_table" \/ UpdateTableClashes(t, id, new)
            THEN Outcome(c2, t, n, calls2, no)
        ELSE Outcome(c2, [t EXCEPT ![id] = new], n, calls2,
                     [raised |-> FALSE, ok |-> TRUE])

\* rename_table without the check that the id resolves
RenameSkipsLookup(c, t, n, id, new, fault) ==
    LET old == t[id]
        calls2 == <<"get_table", "update_table">>
        no == [raised |-> FALSE, ok |-> FALSE]
    IN  IF fault = "get_table" THEN Outcome(c, t, n, <<"get_table">>, no)
        ELSE IF fault = "update_table" \/ UpdateTableClashes(t, id, new)
            THEN Outcome(c, t, n, calls2, no)
        ELSE IF ~GetTable(t, id)
            THEN Outcome([c EXCEPT ![new] = id], t, n, calls2,
                         [raised |-> FALSE, ok |-> TRUE])
        ELSE Outcome([[c EXCEPT ![old] = NoId] EXCEPT ![new] = id],
                     [t EXCEPT ![id] = new], n, calls2,
                     [raised |-> FALSE, ok |-> TRUE])

\* rename_table over a store update that accepts a name another table has
RenameOverwritesClash(c, t, n, id, new, fault) ==
    LET old == t[id]
        calls2 == <<"get_table", "update_table">>
        no == [raised |-> FALSE, ok |-> FALSE]
    IN  IF fault = "get_table" THEN Outcome(c, t, n, <<"get_table">>, no)
        ELSE IF ~GetTable(t, id) THEN Outcome(c, t, n, <<"get_table">>, no)
        ELSE IF fault = "update_table" THEN Outcome(c, t, n, calls2, no)
        ELSE Outcome([[c EXCEPT ![old] = NoId] EXCEPT ![new] = id],
                     [t EXCEPT ![id] = new], n, calls2,
                     [raised |-> FALSE, ok |-> TRUE])

\* rename_table evicting every cache entry of the id, whatever its key
RenameEvictsById(c, t, n, id, new, fault) ==
    LET calls2 == <<"get_table", "update_table">>
        no == [raised |-> FALSE, ok |-> FALSE]
    IN  IF fault = "get_table" THEN Outcome(c, t, n, <<"get_table">>, no)
        ELSE IF ~GetTable(t, id) THEN Outcome(c, t, n, <<"get_table">>, no)
        ELSE IF fault = "update_table" \/ UpdateTableClashes(t, id, new)
            THEN Outcome(c, t, n, calls2, no)
        ELSE Outcome([nm \in Names |-> IF nm = new \/ c[nm] = id THEN
                                           (IF nm = new THEN id ELSE NoId)
                                       ELSE c[nm]],
                     [t EXCEPT ![id] = new], n, calls2,
                     [raised |-> FALSE, ok |-> TRUE])

\* rename_table(table_id, new_name)
RenameOutcome(c, t, n, id, new, fault) ==
    LET old == t[id]
        calls2 == <<"get_table", "update_table">>
        no == [raised |-> FALSE, ok |-> FALSE]
    IN  IF fault = "get_table" THEN Outcome(c, t, n, <<"get_table">>, no)
        ELSE IF ~GetTable(t, id) THEN Outcome(c, t, n, <<"get_table">>, no)
        ELSE IF fault = "update_table" \/ UpdateTableClashes(t, id, new)
            THEN Outcome(c, t, n, calls2, no)
        ELSE Outcome([[c EXCEPT ![old] = NoId] EXCEPT ![new] = id],
                     [t EXCEPT ![id] = new], n, calls2,
                     [raised |-> FALSE, ok |-> TRUE])

DeleteFaults == {"none", "get_table", "delete_raises", "delete_false"}

\* delete_table(table_id); the store's delete may raise, or report failure by
\* returning false, and then it has deleted nothing
DeleteOutcome(c, t, n, id, fault) ==
    LET c1 == IF GetTable(t, id) THEN [c EXCEPT ![t[id]] = NoId] ELSE c
        calls2 == <<"get_table", "delete_table">>
    IN  IF fault = "get_table"
            THEN Outcome(c, t, n, <<"get_table">>, [raised |-> FALSE, ok |-> FALSE])
        ELSE IF fault = "delete_raises"
            THEN Outcome(c1, t, n, calls2, [raised |-> FALSE, ok |-> FALSE])
        ELSE IF fault = "delete_false"
            THEN Outcome(c1, t, n, calls2, [raised |-> FALSE, ok |-> TRUE])
        ELSE Outcome(c1, [t EXCEPT ![id] = NoName], n, calls2,
                     [raised |-> FALSE, ok |-> TRUE])

\* invalidate_table evicting the first entry of the id only
InvalidateFirstOnly(c, id) ==
    LET hits == {nm \in Names : c[nm] = id}
    IN  IF hits = {} THEN c
        ELSE [c EXCEPT ![CHOOSE nm \in hits : TRUE] = NoId]

\* invalidate_table(table_id)
InvalidateOutcome(c, id) == [nm \in Names |-> IF c[nm] = id THEN NoId ELSE c[nm]]

\* a fault is injected only where the operation reaches the call it names
Reached(out, fault) ==
    fault = "none" \/ (out.calls # <<>> /\ out.calls[Len(out.calls)] = fault)

Idle == [op |-> "idle"]

Finish(out, c) ==
    /\ UNCHANGED <<outages, threads>>
    /\ cache' = out.cache
    /\ tables' = out.tables
    /\ nextId' = out.nextId
    /\ items' = [i \in Ids |-> IF out.tables[i] = NoName THEN <<>> ELSE items[i]]
    /\ dbcalls' = out.calls
    /\ result' = out.result
    /\ call' = c
    /\ signals' = <<>>

GetOrCreateTable(name, fault) ==
    /\ call = Idle
    /\ LET out == GetOrCreateOutcome(cache, tables, nextId, name, fault)
       IN  /\ Reached(out, fault)
           /\ out.nextId <= MaxId + 1
           /\ Finish(out, [op |-> "get_or_create_table", name |-> name, fault |-> fault])

RenameTable(id, new, fault) ==
    /\ call = Idle
    /\ LET out == RenameOutcome(cache, tables, nextId, id, new, fault)
       IN  /\ Reached(out, fault)
           /\ Finish(out, [op |-> "rename_table", id |-> id, name |-> new,
                           old |-> tables[id], fault |-> fault])

DeleteTable(id, fault) ==
    /\ call = Idle
    /\ LET out == DeleteOutcome(cache, tables, nextId, id, fault)
       IN  Finish(out, [op |-> "delete_table", id |-> id, fault |-> fault])

InvalidateTable(id) ==
    /\ call = Idle
    /\ Finish(Outcome(InvalidateOutcome(cache, id), tables, nextId, <<>>,
                      [raised |-> FALSE]),
              [op |-> "invalidate_table", id |-> id,
               had |-> Cardinality({nm \in Names : cache[nm] = id})])

ClearCache ==
    /\ call = Idle
    /\ Finish(Outcome(EmptyCache, tables, nextId, <<>>, [raised |-> FALSE]),
              [op |-> "clear_cache"])

(***************************************************************************)
(* TableController.                                                        *)
(***************************************************************************)
ErrorOccurred(msg) == [sig |-> "error_occurred", msg |-> msg]

\* _get_existing_table_names(): the empty list when the store raises
GetExistingTableNames(t, fault) ==
    IF fault = "get_all_tables" THEN {} ELSE GetAllTables(t)

\* the store calls create_table has made when it stops at a validation, and
\* when it has reached the insert
CreateCalls1 == <<"get_all_tables">>
CreateCalls2 == <<"get_all_tables", "add_table_items">>

\* create_table stopping at a failed validation or at an exception: the
\* error_occurred signal and the five-field failure result, nothing written
CreateFailed(t, n, it, calls, name, msg, filled) ==
    [tables |-> t, nextId |-> n, items |-> it, calls |-> calls,
     emitted |-> <<ErrorOccurred(msg)>>,
     result |-> [success |-> FALSE, items_created |-> 0, table_name |-> name,
                 errors |-> <<msg>>, filled_cells |-> filled]]

\* create_table when add_table_items reports failure: the store's own
\* result is what the caller gets
CreateRefused(t, n, it) ==
    [tables |-> t, nextId |-> n, items |-> it, calls |-> CreateCalls2,
     emitted |-> <<ErrorOccurred(AddTableItemsFailed.errors[1])>>,
     result |-> AddTableItemsFailed]

\* create_table when add_table_items reports success: added is what the
\* store did
CreateStored(added, cat, name, filled) ==
    [tables |-> added.tables, nextId |-> added.nextId, items |-> added.items,
     calls |-> CreateCalls2,
     emitted |-> <<[sig |-> "table_created", name |-> name,
                    items_created |-> added.result.items_created, cat |-> cat]>>,
     result |-> [success |-> TRUE, items_created |-> added.result.items_created,
                 table_name |-> name, errors |-> added.result.errors,
                 filled_cells |-> filled]]

CreateFaults == {"none", "get_all_tables", "add_false", "add_raises"}

\* a create_table that validates the data before the name
CreateTableDataFirst(t, n, it, cat, name, m, fault) ==
    LET nameCheck == ValidateTableName(name, GetExistingTableNames(t, fault), NoName)
        dataCheck == ValidateTableData(m, 1)
        added == AddTableItems(t, n, it, cat, name, SanitizeTableData(m))
    IN  IF ~dataCheck.ok
            THEN CreateFailed(t, n, it, CreateCalls1, name, "min_filled", dataCheck.filled)
        ELSE IF nameCheck # "ok"
            THEN CreateFailed(t, n, it, CreateCalls1, name, nameCheck, 0)
        ELSE IF fault = "add_raises"
            THEN CreateFailed(t, n, it, CreateCalls2, name, "exception", 0)
        ELSE IF fault = "add_false" THEN CreateRefused(t, n, it)
        ELSE CreateStored(added, cat, name, dataCheck.filled)

\* a create_table that reports a failed name validation after the insert
CreateTableWritesFirst(t, n, it, cat, name, m, fault) ==
    LET nameCheck == ValidateTableName(name, GetExistingTableNames(t, fault), NoName)
        dataCheck == ValidateTableData(m, 1)
        added == AddTableItems(t, n, it, cat, name, SanitizeTableData(m))
    IN  IF ~dataCheck.ok
            THEN CreateFailed(t, n, it, CreateCalls1, name, "min_filled", dataCheck.filled)
        ELSE IF fault = "add_raises"
            THEN CreateFailed(t, n, it, CreateCalls2, name, "exception", 0)
        ELSE IF fault = "add_false" THEN CreateRefused(t, n, it)
        ELSE IF nameCheck # "ok"
            THEN CreateFailed(added.tables, added.nextId, added.items, CreateCalls2,
                              name, nameCheck, 0)
        ELSE CreateStored(added, cat, name, dataCheck.filled)

\* a create_table whose insert, when it raises, has stored the first row
CreateTableLeavesPartial(t, n, it, cat, name, m, fault) ==
    LET nameCheck == ValidateTableName(name, GetExistingTableNames(t, fault), NoName)
        dataCheck == ValidateTableData(m, 1)
        added == AddTableItems(t, n, it, cat, name, SanitizeTableData(m))
        part == AddTableItems(t, n, it, cat, name, <<SanitizeTableData(m)[1]>>)
    IN  IF nameCheck # "ok"
            THEN CreateFailed(t, n, it, CreateCalls1, name, nameCheck, 0)
        ELSE IF ~dataCheck.ok
            THEN CreateFailed(t, n, it, CreateCalls1, name, "min_filled", dataCheck.filled)
        ELSE IF fault = "add_raises"
            THEN CreateFailed(part.tables, part.nextId, part.items, CreateCalls2,
                              name, "exception", 0)
        ELSE IF fault = "add_false" THEN CreateRefused(t, n, it)
        ELSE CreateStored(added, cat, name, dataCheck.filled)

\* a create_table that reports every cell of the matrix as filled
CreateTableCountsAllCells(t, n, it, cat, name, m, fault) ==
    LET nameCheck == ValidateTableName(name, GetExistingTableNames(t, fault), NoName)
        dataCheck == ValidateTableData(m, 1)
        added == AddTableItems(t, n, it, cat, name, SanitizeTableData(m))
    IN  IF nameCheck # "ok"
            THEN CreateFailed(t, n, it, CreateCalls1, name, nameCheck, 0)
        ELSE IF ~dataCheck.ok
            THEN CreateFailed(t, n, it, CreateCalls1, name, "min_filled", dataCheck.filled)
        ELSE IF fault = "add_raises"
            THEN CreateFailed(t, n, it, CreateCalls2, name, "exception", 0)
        ELSE IF fault = "add_false" THEN CreateRefused(t, n, it)
        ELSE CreateStored(added, cat, name, Len(AllCells(m)))

\* create_table(category_id, table_name, table_data, ...); fault names the
\* store call that fails and how
CreateTableOutcome(t, n, it, cat, name, m, fault) ==
    LET nameCheck == ValidateTableName(name, GetExistingTableNames(t, fault), NoName)
        dataCheck == ValidateTableData(m, 1)
        added == AddTableItems(t, n, it, cat, name, SanitizeTableData(m))
    IN  IF nameCheck # "ok"
            THEN CreateFailed(t, n, it, CreateCalls1, name, nameCheck, 0)
        ELSE IF ~dataCheck.ok
            THEN CreateFailed(t, n, it, CreateCalls1, name, "min_filled", dataCheck.filled)
        ELSE IF fault = "add_raises"
            THEN CreateFailed(t, n, it, CreateCalls2, name, "exception", 0)
        ELSE IF fault = "add_false" THEN CreateRefused(t, n, it)
        ELSE CreateStored(added, cat, name, dataCheck.filled)

\* an operation of the controller or of the dialog: the cache is not theirs
Done(out, c) ==
    /\ outages' = outages + (IF c.op = "create_table" /\ c.fault = "get_all_tables" THEN 1 ELSE 0)
    /\ tables' = out.tables
    /\ nextId' = out.nextId
    /\ items' = out.items
    /\ dbcalls' = out.calls
    /\ signals' = out.emitted
    /\ result' = out.result
    /\ call' = c
    /\ UNCHANGED <<cache, threads>>

\* the fault is injected only where the operation calls the method it names
Injected(out, fault, method) ==
    fault = "none" \/ method \in {out.calls[i] : i \in 1..Len(out.calls)}

CreateTable(cat, name, m, fault) ==
    /\ call = Idle
    /\ LET out == CreateTableOutcome(tables, nextId, items, cat, name, m, fault)
       IN  /\ Injected(out, fault,
                       IF fault = "get_all_tables" THEN fault ELSE "add_table_items")
           /\ fault = "get_all_tables" => outages < MaxOutages
           /\ out.nextId <= MaxId + 1
           /\ \A i \in DOMAIN out.items : Len(out.items[i]) <= MaxItems
           /\ Done(out, [op |-> "create_table", cat |-> cat, name |-> name,
                         matrix |-> m, fault |-> fault])

StructureFaults == {"none", "export_raises"}

\* get_table_structure(table_name)
GetTableStructureOutcome(t, n, it, name, fault) ==
    LET recs == GetTableItems(t, it, name)
        calls == <<"export_table_to_dict">>
        failed(msg) ==
            [tables |-> t, nextId |-> n, items |-> it, calls |-> calls,
             emitted |-> <<>>,
             result |-> [success |-> FALSE, table_name |-> name, error |-> msg]]
    IN  IF fault = "export_raises" THEN failed("exception")
        ELSE IF recs = <<>> THEN failed("not_found")
        ELSE [tables |-> t, nextId |-> n, items |-> it, calls |-> calls,
              emitted |-> <<>>,
              result |-> [success |-> TRUE, table_name |-> name,
                          rows |-> ExportRows(recs)]]

GetTableStructure(name, fault) ==
    /\ call = Idle
    /\ Done(GetTableStructureOutcome(tables, nextId, items, name, fault),
            [op |-> "get_table_structure", name |-> name, fault |-> fault])

UpdateKinds == {"none", "get_table_items", "cell_false", "cell_raises"}

\* the per-cell loop of update_table over the cells from index j on: recs are
\* the table's records so far, count the updates that succeeded, errs the
\* cells whose update the store refused; bad is the cell whose update fails
\* in the way kind says
RECURSIVE UpdateLoop(_, _, _, _, _, _, _)
UpdateLoop(cells, j, recs, count, errs, bad, kind) ==
    IF j > Len(cells)
        THEN [recs |-> recs, count |-> count, errs |-> errs, raised |-> FALSE]
    ELSE IF j = bad /\ kind = "cell_raises"
        THEN [recs |-> recs, count |-> count, errs |-> errs, raised |-> TRUE]
    ELSE IF j = bad /\ kind = "cell_false"
        THEN UpdateLoop(cells, j + 1, recs, count, Append(errs, j), bad, kind)
    ELSE UpdateLoop(cells, j + 1,
                    UpdateTableCell(recs, cells[j].row, cells[j].col,
                                    SanitizeCellContent(cells[j].content)),
                    count + 1, errs, bad, kind)

\* an update_table without the existence check: for a name without records
\* it asks the store to update every cell, and the store refuses each
UpdateTableSkipsExistenceCheck(t, n, it, name, m, bad, kind) ==
    LET existing == GetTableItems(t, it, name)
        tid == GetTableByName(t, name)
        loop == UpdateLoop(AllCells(m), 1, existing, 0, <<>>, bad, kind)
        cat == existing[1].cat
        calls1 == <<"get_table_items">>
        calls2 == <<"get_table_items", "update_table_cell">>
        failed(calls, recs, msg) ==
            [tables |-> t, nextId |-> n,
             items |-> IF tid = NoId THEN it ELSE [it EXCEPT ![tid] = recs],
             calls |-> calls, emitted |-> <<ErrorOccurred(msg)>>,
             result |-> [success |-> FALSE, table_name |-> name, error |-> msg]]
    IN  IF kind = "get_table_items" THEN failed(calls1, existing, "exception")
        ELSE IF existing = <<>>
            THEN [tables |-> t, nextId |-> n, items |-> it, calls |-> calls2,
                  emitted |-> <<>>,
                  result |-> [success |-> FALSE, table_name |-> name,
                              updates_count |-> 0,
                              errors |-> [j \in 1..Len(AllCells(m)) |-> j]]]
        ELSE IF loop.raised THEN failed(calls2, loop.recs, "exception")
        ELSE [tables |-> t, nextId |-> n, items |-> [it EXCEPT ![tid] = loop.recs],
              calls |-> calls2,
              emitted |-> IF cat # 0
                            THEN <<[sig |-> "table_updated", name |-> name, cat |-> cat]>>
                            ELSE <<>>,
              result |-> [success |-> loop.count > 0, table_name |-> name,
                          updates_count |-> loop.count, errors |-> loop.errs]]

\* an update_table that loses the table's records when a cell update raises
UpdateTableDropsOnRaise(t, n, it, name, m, bad, kind) ==
    LET existing == GetTableItems(t, it, name)
        tid == GetTableByName(t, name)
        loop == UpdateLoop(AllCells(m), 1, existing, 0, <<>>, bad, kind)
        cat == existing[1].cat
        calls1 == <<"get_table_items">>
        calls2 == <<"get_table_items", "update_table_cell">>
        failed(calls, recs, msg) ==
            [tables |-> t, nextId |-> n,
             items |-> IF tid = NoId THEN it ELSE [it EXCEPT ![tid] = recs],
             calls |-> calls, emitted |-> <<ErrorOccurred(msg)>>,
             result |-> [success |-> FALSE, table_name |-> name, error |-> msg]]
    IN  IF kind = "get_table_items" THEN failed(calls1, existing, "exception")
        ELSE IF existing = <<>> THEN failed(calls1, existing, "not_found")
        ELSE IF loop.raised THEN failed(calls2, <<>>, "exception")
        ELSE [tables |-> t, nextId |-> n, items |-> [it EXCEPT ![tid] = loop.recs],
              calls |-> calls2,
              emitted |-> IF cat # 0
                            THEN <<[sig |-> "table_updated", name |-> name, cat |-> cat]>>
                            ELSE <<>>,
              result |-> [success |-> loop.count > 0, table_name |-> name,
                          updates_count |-> loop.count, errors |-> loop.errs]]

\* update_table(table_name, table_data)
UpdateTableOutcome(t, n, it, name, m, bad, kind) ==
    LET existing == GetTableItems(t, it, name)
        tid == GetTableByName(t, name)
        loop == UpdateLoop(AllCells(m), 1, existing, 0, <<>>, bad, kind)
        cat == existing[1].cat
        calls1 == <<"get_table_items">>
        calls2 == <<"get_table_items", "update_table_cell">>
        failed(calls, recs, msg) ==
            [tables |-> t, nextId |-> n,
             items |-> IF tid = NoId THEN it ELSE [it EXCEPT ![tid] = recs],
             calls |-> calls, emitted |-> <<ErrorOccurred(msg)>>,
             result |-> [success |-> FALSE, table_name |-> name, error |-> msg]]
    IN  IF kind = "get_table_items" THEN failed(calls1, existing, "exception")
        ELSE IF existing = <<>> THEN failed(calls1, existing, "not_found")
        ELSE IF loop.raised THEN failed(calls2, loop.recs, "exception")
        ELSE [tables |-> t, nextId |-> n, items |-> [it EXCEPT ![tid] = loop.recs],
              calls |-> calls2,
              emitted |-> IF cat # 0
                            THEN <<[sig |-> "table_updated", name |-> name, cat |-> cat]>>
                            ELSE <<>>,
              result |-> [success |-> loop.count > 0, table_name |-> name,
                          updates_count |-> loop.count, errors |-> loop.errs]]

UpdateTable(name, m, bad, kind) ==
    /\ call = Idle
    /\ LET out == UpdateTableOutcome(tables, nextId, items, name, m, bad, kind)
       IN  /\ (kind \in {"cell_false", "cell_raises"}) = (bad # 0)
           /\ bad # 0 => bad <= Len(AllCells(m)) /\ Len(out.calls) = 2
           /\ Done(out, [op |-> "update_table", name |-> name, matrix |-> m,
                         bad |-> bad, fault |-> kind])

CtlDeleteFaults == {"none", "get_table_items", "delete_false", "delete_raises"}

\* a delete_table of the controller that reports success whatever the
\* store's delete_table returned
CtlDeleteIgnoresRefusal(t, n, it, name, fault) ==
    LET existing == GetTableItems(t, it, name)
        tid == GetTableByName(t, name)
        cat == existing[1].cat
        calls1 == <<"get_table_items">>
        calls2 == <<"get_table_items", "delete_table">>
        failed(calls, sigs, msg) ==
            [tables |-> t, nextId |-> n, items |-> it, calls |-> calls,
             emitted |-> sigs,
             result |-> [success |-> FALSE, table_name |-> name, error |-> msg]]
        deleted(t2, it2) ==
            [tables |-> t2, nextId |-> n, items |-> it2, calls |-> calls2,
             emitted |-> IF cat # 0
                           THEN <<[sig |-> "table_deleted", name |-> name, cat |-> cat]>>
                           ELSE <<>>,
             result |-> [success |-> TRUE, table_name |-> name,
                         items_deleted |-> Len(existing)]]
    IN  IF fault = "get_table_items"
            THEN failed(calls1, <<ErrorOccurred("exception")>>, "exception")
        ELSE IF existing = <<>> THEN failed(calls1, <<>>, "not_found")
        ELSE IF fault = "delete_raises"
            THEN failed(calls2, <<ErrorOccurred("exception")>>, "exception")
        ELSE IF fault = "delete_false" THEN deleted(t, it)
        ELSE deleted([t EXCEPT ![tid] = NoName], [it EXCEPT ![tid] = <<>>])

\* delete_table(table_name) of the controller
CtlDeleteTableOutcome(t, n, it, name, fault) ==
    LET existing == GetTableItems(t, it, name)
        tid == GetTableByName(t, name)
        cat == existing[1].cat
        calls1 == <<"get_table_items">>
        calls2 == <<"get_table_items", "delete_table">>
        failed(calls, sigs, msg) ==
            [tables |-> t, nextId |-> n, items |-> it, calls |-> calls,
             emitted |-> sigs,
             result |-> [success |-> FALSE, table_name |-> name, error |-> msg]]
    IN  IF fault = "get_table_items"
            THEN failed(calls1, <<ErrorOccurred("exception")>>, "exception")
        ELSE IF existing = <<>> THEN failed(calls1, <<>>, "not_found")
        ELSE IF fault = "delete_raises"
            THEN failed(calls2, <<ErrorOccurred("exception")>>, "exception")
        ELSE IF fault = "delete_false"
            THEN failed(calls2, <<ErrorOccurred("delete_failed")>>, "delete_failed")
        ELSE [tables |-> [t EXCEPT ![tid] = NoName], nextId |-> n,
              items |-> [it EXCEPT ![tid] = <<>>], calls |-> calls2,
              emitted |-> IF cat # 0
                            THEN <<[sig |-> "table_deleted", name |-> name, cat |-> cat]>>
                            ELSE <<>>,
              result |-> [success |-> TRUE, table_name |-> name,
                          items_deleted |-> Len(existing)]]

CtlDeleteTable(name, fault) ==
    /\ call = Idle
    /\ LET out == CtlDeleteTableOutcome(tables, nextId, items, name, fault)
       IN  /\ fault \in {"delete_false", "delete_raises"} => Len(out.calls) = 2
           /\ Done(out, [op |-> "ctl_delete_table", name |-> name, fault |-> fault])

(***************************************************************************)
(* Paths that change the store without this manager: a peer manager        *)
(* instance deleting a table, the rename dialog renaming one.              *)
(***************************************************************************)
PeerDelete(id) ==
    /\ call = Idle
    /\ GetTable(tables, id)
    /\ Finish(Outcome(cache, [tables EXCEPT ![id] = NoName], nextId,
                      <<"get_table", "delete_table">>, [raised |-> FALSE, ok |-> TRUE]),
              [op |-> "peer_delete", id |-> id])

\* what the user may type into the dialog's line edit
DialogTexts == {<<"t">>, <<"T">>, <<"u">>, <<SP, "u">>, <<"!">>, <<SP>>}
DialogFaults == {"none", "get_all_tables", "get_table_by_name", "update_table"}

\* the dialog's rename_table emitting table_renamed whether or not the store
\* update raised
DialogEmitsAfterRaise(t, current, text, yes, fault) ==
    LET new == Strip(text)
        existing == IF fault = "get_all_tables" THEN {} ELSE GetAllTables(t)
        id == GetTableByName(t, current)
        renamed == [sig |-> "table_renamed", old |-> current, new |-> new]
        stay(calls, why) ==
            [tables |-> t, calls |-> calls, emitted |-> <<>>,
             result |-> [raised |-> FALSE, renamed |-> FALSE, why |-> why]]
        calls1 == <<"get_all_tables">>
        calls2 == Append(calls1, "get_table_by_name")
        calls3 == Append(calls2, "update_table")
    IN  IF new = <<>> THEN stay(<<>>, "empty")
        ELSE IF new = current THEN stay(<<>>, "same")
        ELSE IF ValidateTableName(new, existing, current) # "ok"
            THEN stay(calls1, ValidateTableName(new, existing, current))
        ELSE IF ~yes THEN stay(calls1, "declined")
        ELSE IF fault = "get_table_by_name" \/ id = NoId THEN stay(calls2, "error")
        ELSE IF fault = "update_table" \/ UpdateTableClashes(t, id, new)
            THEN [tables |-> t, calls |-> calls3, emitted |-> <<renamed>>,
                  result |-> [raised |-> FALSE, renamed |-> FALSE, why |-> "error"]]
        ELSE [tables |-> [t EXCEPT ![id] = new], calls |-> calls3,
              emitted |-> <<renamed>>,
              result |-> [raised |-> FALSE, renamed |-> TRUE, why |-> "ok"]]

\* TableRenameDialog.rename_table for a dialog opened on current: text is the
\* line edit's content, yes the answer to the confirmation question
DialogOutcome(t, current, text, yes, fault) ==
    LET new == Strip(text)
        existing == IF fault = "get_all_tables" THEN {} ELSE GetAllTables(t)
        id == GetTableByName(t, current)
        stay(calls, why) ==
            [tables |-> t, calls |-> calls, emitted |-> <<>>,
             result |-> [raised |-> FALSE, renamed |-> FALSE, why |-> why]]
        calls1 == <<"get_all_tables">>
        calls2 == Append(calls1, "get_table_by_name")
        calls3 == Append(calls2, "update_table")
    IN  IF new = <<>> THEN stay(<<>>, "empty")
        ELSE IF new = current THEN stay(<<>>, "same")
        ELSE IF ValidateTableName(new, existing, current) # "ok"
            THEN stay(calls1, ValidateTableName(new, existing, current))
        ELSE IF ~yes THEN stay(calls1, "declined")
        ELSE IF fault = "get_table_by_name" \/ id = NoId THEN stay(calls2, "error")
        ELSE IF fault = "update_table" \/ UpdateTableClashes(t, id, new)
            THEN stay(calls3, "error")
        ELSE [tables |-> [t EXCEPT ![id] = new], calls |-> calls3,
              emitted |-> <<[sig |-> "table_renamed", old |-> current, new |-> new]>>,
              result |-> [raised |-> FALSE, renamed |-> TRUE, why |-> "ok"]]

DialogRename(current, text, yes, fault) ==
    /\ call = Idle
    /\ LET out == DialogOutcome(tables, current, text, yes, fault)
       IN  /\ fault = "none" \/ fault \in {out.calls[i] : i \in 1..Len(out.calls)}
           /\ tables' = out.tables
           /\ dbcalls' = out.calls
           /\ signals' = out.emitted
           /\ result' = out.result
           /\ call' = [op |-> "dialog_rename", current |-> current, text |-> text,
                       yes |-> yes, fault |-> fault]
           /\ UNCHANGED <<nextId, items, cache, outages, threads>>

(***************************************************************************)
(* get_or_create_table called from several threads on one TableManager:    *)
(* the method takes no lock, so each read or write of the cache and each   *)
(* store call is a step of its own.                                        *)
(***************************************************************************)
Threads == {1, 2}

\* a thread that is in no call
NoCall == [pc |-> "idle", name |-> NoName, id |-> NoId, fresh |-> FALSE,
           created |-> FALSE]

ThreadFrame == UNCHANGED <<items, call, result, signals, dbcalls, outages>>

\* the thread enters get_or_create_table(name); fresh records that neither
\* the cache nor the store has the name at that moment
ThreadCall(th, name) ==
    /\ threads[th].pc = "idle"
    /\ threads' = [threads EXCEPT ![th] =
            [pc |-> "check", name |-> name, id |-> NoId,
             fresh |-> cache[name] = NoId /\ GetTableByName(tables, name) = NoId,
             created |-> FALSE]]
    /\ UNCHANGED <<tables, nextId, cache>>
    /\ ThreadFrame

\* if name in self._table_cache
ThreadCheck(th) ==
    /\ threads[th].pc = "check"
    /\ threads' = [threads EXCEPT ![th].pc =
            IF cache[threads[th].name] # NoId THEN "read" ELSE "lookup"]
    /\ UNCHANGED <<tables, nextId, cache>>
    /\ ThreadFrame

\* table_id = self._table_cache[name]: a KeyError when the entry has gone
ThreadRead(th) ==
    /\ threads[th].pc = "read"
    /\ threads' = [threads EXCEPT ![th] =
            IF cache[threads[th].name] = NoId
                THEN [@ EXCEPT !.pc = "raised"]
                ELSE [@ EXCEPT !.pc = "verify", !.id = cache[threads[th].name]]]
    /\ UNCHANGED <<tables, nextId, cache>>
    /\ ThreadFrame

\* if self.db.get_table(table_id): return table_id
ThreadVerify(th) ==
    /\ threads[th].pc = "verify"
    /\ threads' = [threads EXCEPT ![th].pc =
            IF GetTable(tables, threads[th].id) THEN "done" ELSE "evict"]
    /\ UNCHANGED <<tables, nextId, cache>>
    /\ ThreadFrame

\* del self._table_cache[name]: a KeyError when the entry has gone
ThreadEvict(th) ==
    /\ threads[th].pc = "evict"
    /\ IF cache[threads[th].name] = NoId
        THEN /\ threads' = [threads EXCEPT ![th].pc = "raised"]
             /\ UNCHANGED cache
        ELSE /\ threads' = [threads EXCEPT ![th].pc = "lookup"]
             /\ cache' = [cache EXCEPT ![threads[th].name] = NoId]
    /\ UNCHANGED <<tables, nextId>>
    /\ ThreadFrame

\* table = self.db.get_table_by_name(name)
ThreadLookup(th) ==
    /\ threads[th].pc = "lookup"
    /\ threads' = [threads EXCEPT ![th] =
            IF GetTableByName(tables, threads[th].name) # NoId
                THEN [@ EXCEPT !.pc = "remember",
                               !.id = GetTableByName(tables, threads[th].name)]
                ELSE [@ EXCEPT !.pc = "add"]]
    /\ UNCHANGED <<tables, nextId, cache>>
    /\ ThreadFrame

\* table_id = self.db.add_table(name, description): the store, whose table
\* names are unique, raises when a table has the name by now
ThreadAdd(th) ==
    /\ threads[th].pc = "add"
    /\ IF GetTableByName(tables, threads[th].name) # NoId
        THEN /\ threads' = [threads EXCEPT ![th].pc = "raised"]
             /\ UNCHANGED <<tables, nextId>>
        ELSE /\ nextId <= MaxId
             /\ tables' = AddTable(tables, nextId, threads[th].name)
             /\ nextId' = nextId + 1
             /\ threads' = [threads EXCEPT ![th] =
                    [@ EXCEPT !.pc = "remember", !.id = nextId, !.created = TRUE]]
    /\ UNCHANGED cache
    /\ ThreadFrame

\* self._table_cache[name] = table_id; return table_id
ThreadRemember(th) ==
    /\ threads[th].pc = "remember"
    /\ cache' = [cache EXCEPT ![threads[th].name] = threads[th].id]
    /\ threads' = [threads EXCEPT ![th].pc = "done"]
    /\ UNCHANGED <<tables, nextId>>
    /\ ThreadFrame

\* the caller has taken the id, or the exception
ThreadReturn(th) ==
    /\ threads[th].pc \in {"done", "raised"}
    /\ threads' = [threads EXCEPT ![th] = NoCall]
    /\ UNCHANGED <<tables, nextId, cache>>
    /\ ThreadFrame

(***************************************************************************)
(* The Table entity.  An entity that has not been stored has no id (None), *)
(* written NoId here.                                                      *)
(***************************************************************************)
TableEntities == [kind : {"Table"}, id : {NoId} \cup Ids, name : MgrNames]

\* values that are not Table instances: an integer, None, a dict with an id
OtherValues ==
    [kind : {"int", "dict"}, id : Ids, name : {NoName}]
        \cup {[kind |-> "none", id |-> NoId, name |-> NoName]}

\* Table.__eq__(self, other)
TableEq(self, other) ==
    IF other.kind # "Table" THEN FALSE
    ELSE self.id = other.id

\* self == other is evaluated
TableEqCall ==
    /\ call.op = "eq_pending"
    /\ call' = [call EXCEPT !.op = "table_eq"]
    /\ result' = [raised |-> FALSE, equal |-> TableEq(call.self, call.other)]
    /\ UNCHANGED <<tables, nextId, items, cache, signals, dbcalls, outages, threads>>

\* the caller has taken the result: the next operation may start
Return ==
    /\ call # Idle
    /\ call' = Idle
    /\ result' = [raised |-> FALSE]
    /\ signals' = <<>>
    /\ dbcalls' = <<>>
    /\ UNCHANGED <<tables, nextId, items, cache, outages, threads>>

Init ==
    /\ tables = NoTables
    /\ nextId = 1
    /\ items = NoItems
    /\ cache = EmptyCache
    /\ call = Idle
    /\ result = [raised |-> FALSE]
    /\ signals = <<>>
    /\ dbcalls = <<>>
    /\ outages = 0
    /\ threads = [th \in Threads |-> NoCall]

\* the manager, with the paths that change the store behind its back
Next ==
    \/ call = Idle /\ \E name \in MgrNames, fault \in GocFaults :
            GetOrCreateTable(name, fault)
    \/ call = Idle /\ \E id \in Ids, new \in MgrNames, fault \in RenameFaults :
            RenameTable(id, new, fault)
    \/ call = Idle /\ \E id \in Ids, fault \in DeleteFaults : DeleteTable(id, fault)
    \/ call = Idle /\ \E id \in Ids : InvalidateTable(id)
    \/ ClearCache
    \/ call = Idle /\ \E id \in Ids : PeerDelete(id)
    \/ call = Idle /\ \E current \in MgrNames, text \in MgrNames :
            DialogRename(current, text, TRUE, "none")
    \/ Return

Spec == Init /\ [][Next]_vars

\* the controller over the store
CtlNext ==
    \/ call = Idle /\ \E cat \in Categories, name \in CtlNames, m \in Matrices :
            CreateTable(cat, name, m, "none")
    \/ call = Idle /\ \E name \in CtlNames, fault \in StructureFaults :
            GetTableStructure(name, fault)
    \/ call = Idle /\ \E name \in FaultNames, m \in Matrices, bad \in 0..(MaxRows * MaxCols),
                         kind \in UpdateKinds :
            UpdateTable(name, m, bad, kind)
    \/ call = Idle /\ \E name \in CtlNames, fault \in CtlDeleteFaults :
            CtlDeleteTable(name, fault)
    \/ Return

CtlSpec == Init /\ [][CtlNext]_vars

\* creation, reading and deletion through the controller over a store whose
\* get_all_tables may raise as well
FaultNext ==
    \/ call = Idle /\ \E cat \in Categories, name \in FaultNames, m \in Matrices,
                         fault \in CreateFaults :
            CreateTable(cat, name, m, fault)
    \/ call = Idle /\ \E name \in FaultNames, fault \in StructureFaults :
            GetTableStructure(name, fault)
    \/ call = Idle /\ \E name \in FaultNames, fault \in CtlDeleteFaults :
            CtlDeleteTable(name, fault)
    \/ Return

FaultSpec == Init /\ [][FaultNext]_vars

\* the names and the one-row matrices used where the controller and the
\* manager work on the same tables
LifeNames == {<<"t">>, <<"u">>}
RowMatrices == {m \in Matrices : Len(m) = 1}

\* tables with records, created, updated and deleted through the controller,
\* renamed and deleted through the manager
LifeNext ==
    \/ call = Idle /\ \E cat \in Categories, name \in LifeNames, m \in RowMatrices :
            CreateTable(cat, name, m, "none")
    \/ call = Idle /\ \E name \in LifeNames, m \in RowMatrices, bad \in 0..MaxCols,
                         kind \in UpdateKinds :
            UpdateTable(name, m, bad, kind)
    \/ call = Idle /\ \E id \in Ids, new \in LifeNames, fault \in RenameFaults :
            RenameTable(id, new, fault)
    \/ call = Idle /\ \E name \in LifeNames, fault \in CtlDeleteFaults :
            CtlDeleteTable(name, fault)
    \/ call = Idle /\ \E id \in Ids, fault \in DeleteFaults : DeleteTable(id, fault)
    \/ Return

LifeSpec == Init /\ [][LifeNext]_vars

\* the one-cell matrices
CellMatrices == {m \in Matrices : Len(m) = 1 /\ Len(m[1]) = 1}

\* tables made by get_or_create_table and by create_table, renamed and
\* deleted through the manager, deleted through the controller
NameNext ==
    \/ call = Idle /\ \E name \in LifeNames, fault \in GocFaults :
            GetOrCreateTable(name, fault)
    \/ call = Idle /\ \E cat \in Categories, name \in LifeNames, m \in CellMatrices,
                         fault \in CreateFaults :
            CreateTable(cat, name, m, fault)
    \/ call = Idle /\ \E id \in Ids, new \in LifeNames, fault \in RenameFaults :
            RenameTable(id, new, fault)
    \/ call = Idle /\ \E id \in Ids, fault \in DeleteFaults : DeleteTable(id, fault)
    \/ call = Idle /\ \E name \in LifeNames, fault \in CtlDeleteFaults :
            CtlDeleteTable(name, fault)
    \/ Return

NameSpec == Init /\ [][NameNext]_vars

\* Table.__eq__ over every pair of a Table and a value
EqInit ==
    /\ tables = NoTables
    /\ nextId = 1
    /\ items = NoItems
    /\ cache = EmptyCache
    /\ \E self \in TableEntities, other \in TableEntities \cup OtherValues :
            call = [op |-> "eq_pending", self |-> self, other |-> other]
    /\ result = [raised |-> FALSE]
    /\ signals = <<>>
    /\ dbcalls = <<>>
    /\ outages = 0
    /\ threads = [th \in Threads |-> NoCall]

EqNext == TableEqCall

EqSpec == EqInit /\ [][EqNext]_vars

\* the rename dialog over tables the manager creates and a peer deletes:
\* every text, either answer to the confirmation, every failing store call
DialogNext ==
    \/ call = Idle /\ \E name \in MgrNames : GetOrCreateTable(name, "none")
    \/ call = Idle /\ \E current \in MgrNames, text \in DialogTexts,
                         yes \in BOOLEAN, fault \in DialogFaults :
            DialogRename(current, text, yes, fault)
    \/ call = Idle /\ \E id \in Ids : PeerDelete(id)
    \/ Return

DialogSpec == Init /\ [][DialogNext]_vars

\* two threads in get_or_create_table on one manager, beside a peer that
\* deletes tables
ThreadNext ==
    \/ \E th \in Threads, name \in LifeNames : ThreadCall(th, name)
    \/ \E th \in Threads : ThreadCheck(th)
    \/ \E th \in Threads : ThreadRead(th)
    \/ \E th \in Threads : ThreadVerify(th)
    \/ \E th \in Threads : ThreadEvict(th)
    \/ \E th \in Threads : ThreadLookup(th)
    \/ \E th \in Threads : ThreadAdd(th)
    \/ \E th \in Threads : ThreadRemember(th)
    \/ \E th \in Threads : ThreadReturn(th)
    \/ call = Idle /\ \E id \in Ids : PeerDelete(id)
    \/ Return

ThreadSpec == Init /\ [][ThreadNext]_vars

(***************************************************************************)
(* Claims about the TableManager, checked under Spec.                      *)
(***************************************************************************)
\* the names the cache holds
Cached == {nm \in Names : cache[nm] # NoId}

\* C1: in every reachable state the cache holds no two different names
\* mapped to the same table id.
C1_CacheInjective ==
    \A n1 \in Cached, n2 \in Cached : n1 # n2 => cache[n1] # cache[n2]

\* get_or_create_table(name) called in the current state, the store answering
GocNow(name) == GetOrCreateOutcome(cache, tables, nextId, name, "none").result

RenamedOk == call.op = "rename_table" /\ result.ok

\* C2 as stated: right after rename_table(id, newName) returned True for a
\* table named oldName, get_or_create_table(newName) returns id without
\* creating a table, and get_or_create_table(oldName) creates a table with
\* another id.
C2_AsStated ==
    RenamedOk =>
        /\ GocNow(call.name).id = call.id
        /\ ~GocNow(call.name).created
        /\ GocNow(call.old).created
        /\ GocNow(call.old).id # call.id

\* C2 amended: the same, for a rename_table whose new name differs from the
\* name the table had; a rename to the name the table already has leaves that
\* name resolving to the table.
C2_RenameThenResolve ==
    RenamedOk =>
        /\ GocNow(call.name).id = call.id
        /\ ~GocNow(call.name).created
        /\ call.name # call.old =>
              GocNow(call.old).created /\ GocNow(call.old).id # call.id
        /\ call.name = call.old =>
              GocNow(call.old).id = call.id /\ ~GocNow(call.old).created

\* a table was renamed to another name while the cache held its old name
C2_Witness ==
    /\ RenamedOk
    /\ call.name # call.old
    /\ dbcalls = <<"get_table", "update_table">>
    /\ cache[call.name] = call.id
    /\ cache[call.old] = NoId

\* C3: a get_or_create_table(name) that returns gives the cached id only when
\* that id resolves in the store at the time of the call; otherwise the
\* result is the table the store has under that name or, when it has none,
\* one newly created table, no other table changing; on return the cache
\* maps name to the result.  A cached id found not to resolve is evicted even
\* when the store call that follows raises.
C3_Step ==
    call'.op = "get_or_create_table" =>
        LET nm == call'.name
            r == result'.id
            live == cache[nm] # NoId /\ GetTable(tables, cache[nm])
            known == GetTableByName(tables, nm)
        IN  IF result'.raised
                THEN (cache[nm] # NoId /\ ~live /\ call'.fault # "get_table")
                        => cache'[nm] = NoId
            ELSE /\ cache'[nm] = r
                 /\ IF live THEN r = cache[nm] /\ tables' = tables /\ ~result'.created
                    ELSE IF known # NoId
                        THEN r = known /\ tables' = tables /\ ~result'.created
                    ELSE /\ result'.created
                         /\ r \in Ids /\ ~GetTable(tables, r)
                         /\ tables'[r] = nm
                         /\ \A i \in Ids \ {r} : tables'[i] = tables[i]
C3_GetOrCreate == [][C3_Step]_vars

\* a stale cache entry was evicted and the table created anew
C3_Witness ==
    /\ call.op = "get_or_create_table"
    /\ ~result.raised /\ result.created
    /\ dbcalls = <<"get_table", "get_table_by_name", "add_table">>
    /\ cache[call.name] = result.id

\* C4: after delete_table(id) returned, the store's delete having succeeded
\* or raised, no cache entry has the value id.
C4_NoEntryForDeleted ==
    (call.op = "delete_table" /\ call.fault \in {"none", "delete_raises"}) =>
        \A nm \in Names : cache[nm] # call.id

(***************************************************************************)
(* Claims about create_table, checked under FaultSpec.                     *)
(***************************************************************************)
\* whether the named store method is among the calls of the operation just
\* carried out, and whether the named signal is among those it emitted
Called(calls, method) == \E i \in 1..Len(calls) : calls[i] = method
Emitted(sigs, sig) == \E i \in 1..Len(sigs) : sigs[i].sig = sig

\* the name validation as create_table(name, ...) carries it out in store t
\* when the store fails as fault says
NameVerdict(t, name, fault) ==
    ValidateTableName(name, GetExistingTableNames(t, fault), NoName)

\* a create_table step one of whose validations fails
ValidationFails ==
    /\ call'.op = "create_table"
    /\ \/ NameVerdict(tables, call'.name, call'.fault) # "ok"
       \/ ~ValidateTableData(call'.matrix, 1).ok

\* C5: a create_table whose name validation or fill-count validation fails
\* writes nothing to the store and never calls add_table_items, returns
\* success = False with items_created = 0 and emits no table_created; a
\* failing name is reported alone, whatever the data.
C5_Step ==
    ValidationFails =>
        /\ tables' = tables /\ items' = items /\ nextId' = nextId
        /\ ~Called(dbcalls', "add_table_items")
        /\ result'.success = FALSE
        /\ result'.items_created = 0
        /\ ~Emitted(signals', "table_created")
        /\ NameVerdict(tables, call'.name, call'.fault) # "ok" =>
              result'.errors = <<NameVerdict(tables, call'.name, call'.fault)>>

C5_ValidationBeforeWrite == [][C5_Step]_vars

\* a create_table failing both validations has reported the name error
C5_Witness ==
    /\ call.op = "create_table"
    /\ call.name = <<"!">>
    /\ FilledCount(call.matrix) = 0
    /\ result.errors = <<"name_chars">>
    /\ dbcalls = CreateCalls1

\* C6 as stated: after a create_table one of whose validations fails, no
\* cell record exists for the table name.
C6_AsStatedStep ==
    ValidationFails => GetTableItems(tables', items', call'.name) = <<>>

C6_AsStated == [][C6_AsStatedStep]_vars

\* C6 amended: a create_table one of whose validations fails leaves the cell
\* records of every table as they were: those of the table name are the
\* ones it had before the call, none when no table had that name.
C6_Step ==
    ValidationFails =>
        /\ items' = items
        /\ GetTableItems(tables', items', call'.name)
              = GetTableItems(tables, items, call'.name)
        /\ GetTableByName(tables, call'.name) = NoId =>
              GetTableItems(tables', items', call'.name) = <<>>

C6_NoRecordsAdded == [][C6_Step]_vars

\* a create_table refused because its name is taken: the records of the
\* table that has the name are there
C6_Witness ==
    /\ call.op = "create_table"
    /\ result.errors = <<"name_not_unique">>
    /\ dbcalls = CreateCalls1
    /\ GetTableItems(tables, items, call.name) # <<>>

\* C7: create_table with a name that an existing table has returns
\* success = False with items_created = 0 and the name-uniqueness error and
\* stores no cell record, whether get_all_tables answers or raises.
C7_Step ==
    (call'.op = "create_table" /\ GetTableByName(tables, call'.name) # NoId) =>
        /\ result'.success = FALSE
        /\ result'.items_created = 0
        /\ result'.errors = <<"name_not_unique">>
        /\ items' = items

C7_DuplicateRefused == [][C7_Step]_vars

\* C8: the cell records a create_table call stores under the table name are
\* none or the complete set of the non-empty sanitized cells of its matrix,
\* in one insert; when the insert reports failure or raises, and when a
\* validation fails, they are none.
C8_Step ==
    call'.op = "create_table" =>
        LET before == GetTableItems(tables, items, call'.name)
            after == GetTableItems(tables', items', call'.name)
            full == Encode(call'.cat, SanitizeTableData(call'.matrix))
        IN  /\ after = before \/ after = before \o full
            /\ result'.success => after = before \o full
            /\ ~result'.success => after = before /\ tables' = tables
            /\ \A id \in Ids : (GetTable(tables, id) /\ tables[id] # call'.name)
                                    => items'[id] = items[id]

CreatedOk == call.op = "create_table" /\ result.success

\* C9: get_table_structure right after a successful create_table of a fresh
\* name returns success with rows equal, cell for cell, to the sanitized
\* matrix, empty cells included.
C9_RoundTrip ==
    CreatedOk =>
        LET got == GetTableStructureOutcome(tables, nextId, items, call.name, "none").result
        IN  /\ got.success
            /\ got.rows = SanitizeTableData(call.matrix)

\* C10: update_table right after a successful create_table from an R x C
\* matrix, with any R x C matrix, returns updates_count = R * C and no errors
\* and emits table_updated once, with the category the table was created in.
C10_UpdateAllCells ==
    CreatedOk =>
        \A m \in Matrices :
            (Len(m) = Len(call.matrix) /\ Len(m[1]) = Len(call.matrix[1])) =>
                LET out == UpdateTableOutcome(tables, nextId, items, call.name, m, 0, "none")
                IN  /\ out.result.updates_count = Len(m) * Len(m[1])
                    /\ out.result.errors = <<>>
                    /\ out.emitted = <<[sig |-> "table_updated", name |-> call.name,
                                        cat |-> call.cat]>>

(***************************************************************************)
(* Claims about the notifications of the controller.                       *)
(***************************************************************************)
\* the operations of TableController
CtlOps == {"create_table", "get_table_structure", "update_table", "ctl_delete_table"}

\* C11: update_table emits table_updated only when at least one cell update
\* succeeded (and the category was resolved): an update_table all of whose
\* cell updates failed has emitted no table_updated.
C11_UpdatedOnlyOnProgress ==
    (call.op = "update_table" /\ Emitted(signals, "table_updated")) =>
        result.updates_count > 0

\* the failure message of a result: the error field, or the error list of
\* create_table
FailureMessages(res) ==
    IF "error" \in DOMAIN res THEN {res.error}
    ELSE {res.errors[i] : i \in 1..Len(res.errors)}

\* C12: every operation of the controller that returns success = False, the
\* not-found outcomes included, has emitted error_occurred with the failure
\* message.
C12_FailureNotified ==
    (call.op \in CtlOps /\ ~result.success) =>
        \E i \in 1..Len(signals) :
            /\ signals[i].sig = "error_occurred"
            /\ signals[i].msg \in FailureMessages(result)

\* C13: a successful create_table emits table_created exactly once, with the
\* name, items_created and the category id; a successful delete_table emits
\* table_deleted exactly once, with the name and the category of the records
\* it deleted, whatever the category id; an operation returning
\* success = False emits neither.
C13_Step ==
    /\ (call'.op = "create_table" /\ result'.success) =>
            signals' = <<[sig |-> "table_created", name |-> call'.name,
                          items_created |-> result'.items_created,
                          cat |-> call'.cat]>>
    /\ (call'.op = "ctl_delete_table" /\ result'.success) =>
            signals' = <<[sig |-> "table_deleted", name |-> call'.name,
                          cat |-> GetTableItems(tables, items, call'.name)[1].cat]>>
    /\ (call'.op \in CtlOps /\ ~result'.success) =>
            /\ ~Emitted(signals', "table_created")
            /\ ~Emitted(signals', "table_deleted")

C13_LifecycleSignals == [][C13_Step]_vars

(***************************************************************************)
(* Claims about update_table and the controller's delete_table, checked    *)
(* under CtlSpec.                                                          *)
(***************************************************************************)
\* C14: update_table for a table name that has no cell records returns
\* success = False, the not-found outcome when get_table_items answers, makes
\* no update_table_cell call and leaves the store unchanged: no record is
\* created.
C14_Step ==
    (call'.op = "update_table" /\ GetTableItems(tables, items, call'.name) = <<>>) =>
        /\ ~result'.success
        /\ ~Called(dbcalls', "update_table_cell")
        /\ tables' = tables /\ items' = items /\ nextId' = nextId
        /\ call'.fault # "get_table_items" => result'.error = "not_found"

C14_UpdateOfMissing == [][C14_Step]_vars

\* update_table of a name without records while another table has records
C14_Witness ==
    /\ call.op = "update_table"
    /\ call.fault = "none"
    /\ GetTableItems(tables, items, call.name) = <<>>
    /\ \E id \in Ids : items[id] # <<>>
    /\ ~result.success
    /\ result.error = "not_found"

\* get_table_structure(name) called in the current state answers not found
StructureNotFound(t, n, it, name) ==
    LET got == GetTableStructureOutcome(t, n, it, name, "none").result
    IN  ~got.success /\ got.error = "not_found"

\* C15: when delete_table(name) of the controller returns success,
\* get_table_structure(name) answers not found and the table's id has no
\* cell record; both stay so through every operation that is not a
\* create_table of that name.
C15_Step ==
    /\ (call'.op = "ctl_delete_table" /\ result'.success) =>
            /\ StructureNotFound(tables', nextId', items', call'.name)
            /\ items'[GetTableByName(tables, call'.name)] = <<>>
            /\ ~GetTable(tables', GetTableByName(tables, call'.name))
    /\ \A nm \in CtlNames :
            (/\ StructureNotFound(tables, nextId, items, nm)
             /\ ~(call'.op = "create_table" /\ call'.name = nm))
                => StructureNotFound(tables', nextId', items', nm)
    /\ \A id \in Ids : (id < nextId /\ ~GetTable(tables, id)) =>
            items'[id] = <<>> /\ ~GetTable(tables', id)

C15_DeletedStaysAbsent == [][C15_Step]_vars

\* a table of several records was deleted through the controller
C15_Witness ==
    /\ call.op = "ctl_delete_table"
    /\ result.success
    /\ result.items_deleted >= 2
    /\ StructureNotFound(tables, nextId, items, call.name)

(***************************************************************************)
(* Claims about the life of a table, checked under LifeSpec.               *)
(***************************************************************************)
\* the table with this id is present: its identity resolves and it has
\* cell records
Present(t, it, id) == GetTable(t, id) /\ it[id] # <<>>

\* C16: a table present before an update_table or a rename_table is present
\* after it, whichever cell updates or store calls fail: its identity
\* resolves and it has cell records, a rename leaving the records as they
\* were; a present table becomes absent only in a delete_table.
C16_Step ==
    \A id \in Ids : Present(tables, items, id) =>
        /\ call'.op \in {"update_table", "rename_table"} =>
                Present(tables', items', id)
        /\ call'.op = "rename_table" => items'[id] = items[id]
        /\ ~Present(tables', items', id) =>
                call'.op \in {"ctl_delete_table", "delete_table"}

C16_StaysPresent == [][C16_Step]_vars

\* a cell update raised in the middle of an update_table of a present table
C16_Witness ==
    /\ call.op = "update_table"
    /\ call.fault = "cell_raises"
    /\ call.bad = 2
    /\ dbcalls = <<"get_table_items", "update_table_cell">>
    /\ Present(tables, items, GetTableByName(tables, call.name))

(***************************************************************************)
(* Claims about store calls that raise.                                    *)
(***************************************************************************)
\* the faults in which a store call raises
RaisingFaults == {"get_all_tables", "add_raises", "export_raises", "get_table_items",
                  "cell_raises", "delete_raises"}

\* C17: an operation of the controller during which a store call raised has
\* returned (it never raises) a result with success = False and an error
\* message.
C17_RaiseBecomesFailure ==
    (call.op \in CtlOps /\ call.fault \in RaisingFaults) =>
        ~result.success /\ FailureMessages(result) # {}

\* the store refuses update_table(id, new): another table has the name
RenameClashes == GetTable(tables, call'.id) /\ UpdateTableClashes(tables, call'.id, call'.name)

\* C18: a rename_table or delete_table of the manager during which a store
\* call raises returns False and raises nothing, the store unchanged; when
\* it is the store's update_table that raised, the cache is as it was
\* before the rename_table.
C18_Step ==
    /\ (call'.op = "rename_table"
            /\ (call'.fault \in {"get_table", "update_table"} \/ RenameClashes)) =>
            /\ ~result'.raised /\ ~result'.ok
            /\ tables' = tables
            /\ Called(dbcalls', "update_table") => cache' = cache
    /\ (call'.op = "delete_table" /\ call'.fault \in {"get_table", "delete_raises"}) =>
            /\ ~result'.raised /\ ~result'.ok
            /\ tables' = tables

C18_ManagerNeverRaises == [][C18_Step]_vars

\* the store's update_table raised in a rename_table of a cached table
C18_Witness ==
    /\ call.op = "rename_table"
    /\ call.fault = "update_table"
    /\ dbcalls = <<"get_table", "update_table">>
    /\ ~result.ok
    /\ call.name # call.old
    /\ cache[call.old] = call.id
    /\ cache[call.name] = NoId

\* C19: rename_table(id, new_name) for an id that does not resolve in the
\* store returns False without raising, makes no store update and leaves
\* the cache and the store unchanged.
C19_Step ==
    (call'.op = "rename_table" /\ ~GetTable(tables, call'.id)) =>
        /\ ~result'.ok /\ ~result'.raised
        /\ ~Called(dbcalls', "update_table")
        /\ tables' = tables
        /\ cache' = cache

C19_RenameOfMissing == [][C19_Step]_vars

\* a rename_table of an id that no longer resolves while the cache still
\* holds it
C19_Witness ==
    /\ call.op = "rename_table"
    /\ call.fault = "none"
    /\ ~GetTable(tables, call.id)
    /\ dbcalls = <<"get_table">>
    /\ ~result.ok
    /\ \E nm \in Names : cache[nm] = call.id

(***************************************************************************)
(* Claims about the counts create_table reports, checked under FaultSpec.  *)
(***************************************************************************)
\* C20: a successful create_table without encoding errors reports
\* items_created and filled_cells both equal to the number of cells of the
\* matrix whose trimmed content is not empty.
C20_CountsAgree ==
    (CreatedOk /\ result.errors = <<>>) =>
        /\ result.items_created = FilledCount(call.matrix)
        /\ result.filled_cells = FilledCount(call.matrix)

\* the scenario of the specification: a 2 x 2 matrix with one empty cell
C20_Witness ==
    /\ CreatedOk
    /\ Len(call.matrix) = 2 /\ Len(call.matrix[1]) = 2
    /\ Strip(call.matrix[2][1]) = <<>>
    /\ result.items_created = 3
    /\ result.filled_cells = 3

(***************************************************************************)
(* Claims about the manager beside paths that bypass it, checked under     *)
(* Spec.                                                                   *)
(***************************************************************************)
\* C21: the id a get_or_create_table(name) returns is the id of a table
\* whose name in the store is name, whatever renames and deletes were done
\* without the manager before.
C21_ReturnedIdHasName ==
    (call.op = "get_or_create_table" /\ ~result.raised) =>
        /\ GetTable(tables, result.id)
        /\ tables[result.id] = call.name

(***************************************************************************)
(* Claims about the per-cell loop of update_table, checked under CtlSpec.  *)
(***************************************************************************)
\* C22: an update_table of a table that has records, one of whose cell
\* updates fails, by the store returning false or by its raising, still
\* attempts every cell: it returns updates_count and errors with
\* updates_count + len(errors) the number of cells of the matrix, and
\* success = (updates_count > 0).
C22_BestEffort ==
    (call.op = "update_table" /\ call.fault \in {"cell_false", "cell_raises"}) =>
        /\ "updates_count" \in DOMAIN result
        /\ result.updates_count + Len(result.errors) = Len(AllCells(call.matrix))
        /\ result.success = (result.updates_count > 0)

C25_AsStatedStep ==
    (call'.op = "rename_table" /\ result'.ok) =>
        /\ cache'[tables[call'.id]] = NoId
        /\ cache'[call'.name] = call'.id
        /\ \A nm \in Names \ {tables[call'.id], call'.name} : cache'[nm] = cache[nm]

C25_AsStated == [][C25_AsStatedStep]_vars

\* C25 amended: a rename_table(id, new_name) that returns True maps new_name
\* to id, leaves no entry under the name the store had for the table when
\* that name differs from new_name, and leaves every other cache entry as it
\* was.
C25_Step ==
    (call'.op = "rename_table" /\ result'.ok) =>
        \A nm \in Names :
            cache'[nm] = IF nm = call'.name THEN call'.id
                         ELSE IF nm = tables[call'.id] THEN NoId
                         ELSE cache[nm]

C25_RenameSwapsCacheKey == [][C25_Step]_vars

\* a cached table was renamed to another name while the cache held a third
\* name, and a stale one for the same id
C25_Witness ==
    /\ RenamedOk
    /\ call.name # call.old
    /\ cache[call.name] = call.id
    /\ cache[call.old] = NoId
    /\ \E nm \in Names \ {call.name, call.old} : cache[nm] # NoId

\* C26: invalidate_table(id) removes the cache entries whose value is id and
\* no other; clear_cache leaves the cache empty; neither changes the store
\* or calls it.
C26_Step ==
    /\ call'.op = "invalidate_table" =>
          /\ \A nm \in Names :
                cache'[nm] = IF cache[nm] = call'.id THEN NoId ELSE cache[nm]
          /\ tables' = tables /\ items' = items /\ nextId' = nextId
          /\ dbcalls' = <<>>
    /\ call'.op = "clear_cache" =>
          /\ cache' = EmptyCache
          /\ tables' = tables /\ items' = items /\ nextId' = nextId
          /\ dbcalls' = <<>>

C26_EvictionHooks == [][C26_Step]_vars

\* an invalidate_table that removed two entries of one id and kept an entry
\* of another
C26_Witness ==
    /\ call.op = "invalidate_table"
    /\ call.had = 2
    /\ \A nm \in Names : cache[nm] # call.id
    /\ \E nm \in Names : cache[nm] # NoId

\* C27: a delete_table(id) that returns True leaves no table of that id in
\* the store; when the store's delete reports failure by returning false,
\* delete_table returns False.
C27_DeleteReportsStore ==
    call.op = "delete_table" =>
        /\ result.ok => ~GetTable(tables, call.id)
        /\ call.fault = "delete_false" => ~result.ok

(***************************************************************************)
(* Claims about the shape of create_table's result, checked under          *)
(* FaultSpec.                                                              *)
(***************************************************************************)
\* C28: every result create_table returns, on success and on every failure
\* (name validation, data validation, a failure reported by the store, an
\* exception), has the five fields success, items_created, table_name,
\* errors and filled_cells.
C28_FiveFields ==
    call.op = "create_table" =>
        {"success", "items_created", "table_name", "errors", "filled_cells"}
            \subseteq DOMAIN result

(***************************************************************************)
(* Claims about the rename dialog, checked under DialogSpec.               *)
(***************************************************************************)
\* C29: the dialog's rename_table calls the store's update_table at most
\* once, and only when the trimmed new name is not empty, differs from the
\* current name, passes validate_table_name with the current name excluded
\* (against the names the dialog read from the store: none when
\* get_all_tables raised), the user has confirmed and the current name
\* resolves to a table;
\* table_renamed(current, new) is emitted exactly when that update completed
\* without raising, and otherwise the store is unchanged and nothing is
\* emitted.
C29_Step ==
    call'.op = "dialog_rename" =>
        LET cur == call'.current
            new == Strip(call'.text)
            id == GetTableByName(tables, cur)
            existing == IF call'.fault = "get_all_tables" THEN {}
                        ELSE GetAllTables(tables)
            updates == {i \in 1..Len(dbcalls') : dbcalls'[i] = "update_table"}
            completed == /\ updates # {}
                         /\ call'.fault # "update_table"
                         /\ ~UpdateTableClashes(tables, id, new)
        IN  /\ Cardinality(updates) <= 1
            /\ updates # {} =>
                  /\ new # <<>>
                  /\ new # cur
                  /\ ValidateTableName(new, existing, cur) = "ok"
                  /\ call'.yes
                  /\ id # NoId
            /\ items' = items /\ nextId' = nextId
            /\ IF completed
                  THEN /\ signals' = <<[sig |-> "table_renamed", old |-> cur, new |-> new]>>
                       /\ tables' = [tables EXCEPT ![id] = new]
                  ELSE /\ signals' = <<>>
                       /\ tables' = tables

C29_DialogRenamesOnce == [][C29_Step]_vars

\* the dialog renamed a table to a name typed with a leading space, after a
\* get_all_tables that raised
C29_Witness ==
    /\ call.op = "dialog_rename"
    /\ call.fault = "get_all_tables"
    /\ call.text = <<SP, "u">>
    /\ call.yes
    /\ dbcalls = <<"get_all_tables", "get_table_by_name", "update_table">>
    /\ signals = <<[sig |-> "table_renamed", old |-> call.current, new |-> <<"u">>]>>
    /\ GetTableByName(tables, <<"u">>) # NoId
    /\ GetTableByName(tables, call.current) = NoId

(***************************************************************************)
(* Claims about concurrent callers, checked under ThreadSpec.              *)
(***************************************************************************)
\* C24: when two threads have been in get_or_create_table(name) at the same
\* time for a name that neither the cache nor the store had when each of
\* them entered, both calls return, with the same id, and exactly one of
\* them created a table.
C24_OneTablePerName ==
    \A a \in Threads, b \in Threads :
        (/\ a # b
         /\ threads[a].pc \in {"done", "raised"}
         /\ threads[b].pc \in {"done", "raised"}
         /\ threads[a].fresh /\ threads[b].fresh
         /\ threads[a].name = threads[b].name) =>
            /\ threads[a].pc = "done" /\ threads[b].pc = "done"
            /\ threads[a].id = threads[b].id
            /\ threads[a].created # threads[b].created

(***************************************************************************)
(* Claims about the Table entity, checked under EqSpec.                    *)
(***************************************************************************)
\* C30: a Table equals a value if and only if the value is a Table, both
\* have an id and the ids are equal; two Tables that both lack an id are not
\* equal, and a Table never equals a value that is not a Table.
C30_EqualIffSameId ==
    call.op = "table_eq" =>
        (result.equal <=>
            /\ call.other.kind = "Table"
            /\ call.self.id # NoId
            /\ call.other.id # NoId
            /\ call.self.id = call.other.id)

=============================================================================
